---------------------------- MODULE Spec2Model ----------------------------
(***************************************************************************)
(* Receipt layout and print jobs of NetumScan80-PersonalPrinter.           *)
(*                                                                         *)
(* Strings are sequences of one-character strings, so that slicing,        *)
(* centering, wrapping and upper-casing are computed character by          *)
(* character, the way the Python code computes them.                       *)
(***************************************************************************)
EXTENDS Integers, Sequences, FiniteSets, TLC

VARIABLES
    program,      \* which program runs: "preview", "text", "batch" or "one"
    title,        \* request: the title argument
    description,  \* request: the description argument
    priority,     \* request: the priority argument
    clock,        \* what datetime.now() returns at construction
    escpos,       \* _ESCPOS_AVAILABLE
    receipt,      \* the Receipt object, or NoReceipt
    error,        \* exception that left the running operation, or "none"
    lines,        \* value returned by the last _build_lines call
    conn,         \* the Win32Raw connection p: "none" or "open"
    dev,          \* what the device received, in order
    out,          \* what the program printed on the console, in order
    idx,          \* PrintAllTests.main: the loop variable i
    nsent,        \* device calls of the running job that have returned
    env,          \* what is installed and whether the renderers work
    path,         \* html_receipt: the path argument
    entry,        \* print_preview: what was typed as "Priority #"
    args,         \* html_receipt: the title, description, priority arguments
    op,           \* html_receipt: the function that runs
    calls,        \* the renderers render_png has called, in order
    html,         \* value returned by the last build_html call, or NoHtml
    files,        \* paths of the files written
    result,       \* value returned by save_html / render_png
    limit,        \* CharLimitTest.build: the limit argument
    interval,     \* CharLimitTest.build: the interval argument
    ruler,        \* CharLimitTest.build: result
    count,        \* CharLimitTest.build: count
    next_mark,    \* CharLimitTest.build: next_mark
    source_idx,   \* CharLimitTest.build: source_idx
    pc            \* position of the running program

requestVars == <<program, title, description, priority, clock, escpos>>
deviceVars  == <<conn, dev, out, idx, nsent>>
renderVars  == <<env, path, entry, args, op, calls, html, files, result>>
buildVars   == <<limit, interval, ruler, count, next_mark, source_idx>>
vars == <<program, title, description, priority, clock, escpos, receipt,
          error, lines, conn, dev, out, idx, nsent, env, path, entry, args,
          op, calls, html, files, result, limit, interval, ruler, count,
          next_mark, source_idx, pc>>

-----------------------------------------------------------------------------
(* Bounds of the explored inputs *)

MaxDescLen  == 2000   \* longest description tried
MaxTitleLen == 50     \* longest title tried
MaxGap      == 2      \* longest run of whitespace between two words
MaxLimit    == 30     \* largest limit given to build
MaxInterval == 6      \* largest interval given to build

-----------------------------------------------------------------------------
(* Small helpers on integers and sequences *)

Min(a, b) == IF a < b THEN a ELSE b

SetMax(S) == CHOOSE x \in S : \A y \in S : y <= x

\* Python s[:n] for n >= 0
Slice(s, n) == SubSeq(s, 1, Min(n, Len(s)))

\* Python c * n
Rep(c, n) == [i \in 1..n |-> c]

-----------------------------------------------------------------------------
(* receipt.py: constants *)

PRIORITY_KEYS == {0, 1, 2, 3}

PRIORITY_LABELS(p) ==
    CASE p = 0 -> <<"F","U","T","U","R","E"," ","/"," ",
                    "B","R","E","A","K","D","O","W","N">>
      [] p = 1 -> <<"L","O","W">>
      [] p = 2 -> <<"M","E","D","I","U","M">>
      [] p = 3 -> <<"H","I","G","H">>

CHAR_WIDTH  == 48
MAX_LINES   == 20
CHAR_LIMIT  == CHAR_WIDTH * MAX_LINES
BORDER      == Rep("=", CHAR_WIDTH)
THIN_BORDER == Rep("-", CHAR_WIDTH)

PRIORITY_PREFIX == <<"P","R","I","O","R","I","T","Y",":"," ">>
ELLIPSIS == <<".", ".", ".">>

NoReceipt == [none |-> TRUE]

-----------------------------------------------------------------------------
(* Python string primitives used by receipt.py *)

Whitespace == {" ", "\n"}

IsWs(c) == c \in Whitespace

\* str.upper() on one character; the sharp s has a two-letter upper case
UpperChar(c) ==
    CASE c = "a" -> <<"A">>
      [] c = "b" -> <<"B">>
      [] c = "c" -> <<"C">>
      [] c = "ß" -> <<"S", "S">>
      [] OTHER   -> <<c>>

RECURSIVE Upper(_)
Upper(s) == IF s = <<>> THEN <<>> ELSE UpperChar(Head(s)) \o Upper(Tail(s))

\* str.rstrip(): drop the trailing whitespace
RStrip(s) ==
    LET keep == {i \in 1..Len(s) : ~IsWs(s[i])}
    IN  IF keep = {} THEN <<>> ELSE SubSeq(s, 1, SetMax(keep))

\* a centering that pads both sides with the smaller half
Center_ShortPad(s) ==
    IF Len(s) >= CHAR_WIDTH THEN s
    ELSE LET left == (CHAR_WIDTH - Len(s)) \div 2
         IN  Rep(" ", left) \o s \o Rep(" ", left)

\* format(s, "^48"): a string at least as wide as the field is left as it
\* is; otherwise the smaller half of the padding goes to the left
Center(s) ==
    IF Len(s) >= CHAR_WIDTH THEN s
    ELSE LET pad  == CHAR_WIDTH - Len(s)
             left == pad \div 2
         IN  Rep(" ", left) \o s \o Rep(" ", pad - left)

Digits == <<"0","1","2","3","4","5","6","7","8","9">>

Pad2(n) == <<Digits[(n \div 10) + 1], Digits[(n % 10) + 1]>>

Pad4(n) == Pad2(n \div 100) \o Pad2(n % 100)

\* datetime.strftime("%Y-%m-%d  %H:%M")
Strftime(t) ==
    Pad4(t.year) \o <<"-">> \o Pad2(t.month) \o <<"-">> \o Pad2(t.day)
        \o <<" ", " ">> \o Pad2(t.hour) \o <<":">> \o Pad2(t.minute)

-----------------------------------------------------------------------------
(* textwrap.wrap(text, width=CHAR_WIDTH) with the default options           *)
(* (replace_whitespace, drop_whitespace, break_long_words), for text        *)
(* without hyphens and tabs.  A chunk is a maximal run of whitespace or of  *)
(* non-whitespace; chunks are named by their positions in the text.         *)

\* TextWrapper._munge_whitespace
Munge(text) == [i \in 1..Len(text) |-> IF IsWs(text[i]) THEN " " ELSE text[i]]

\* position i is the last character of a chunk
ChunkEnd(t, i) == i = Len(t) \/ IsWs(t[i]) # IsWs(t[i + 1])

\* last position of the chunk that starts at p
ChunkStop(t, p) ==
    CHOOSE i \in p..Len(t) : ChunkEnd(t, i) /\ \A j \in p..(i - 1) : ~ChunkEnd(t, j)

\* first position, not before p, of the chunk that ends at e
ChunkStart(t, p, e) ==
    SetMax({i \in p..e : i = p \/ IsWs(t[i - 1]) # IsWs(t[i])})

\* the chunk that starts at s is longer than the width
LongChunk(t, s) ==
    /\ s + CHAR_WIDTH <= Len(t)
    /\ \A i \in s..(s + CHAR_WIDTH - 1) : ~ChunkEnd(t, i)

\* TextWrapper._wrap_chunks: one iteration of the outer loop builds one line
\* from the chunks that start at p
RECURSIVE WrapChunks(_, _, _)
WrapChunks(t, p, acc) ==
    IF p > Len(t) THEN acc
    ELSE
      LET n  == Len(t)
          \* a whitespace chunk at the start of a line is dropped, unless
          \* no line was produced yet
          p1 == IF IsWs(t[p]) /\ acc # <<>> THEN ChunkStop(t, p) + 1 ELSE p
      IN  IF p1 > n THEN acc
          ELSE
            LET \* whole chunks are taken while they fit
                ends   == {i \in p1..Min(n, p1 + CHAR_WIDTH - 1) : ChunkEnd(t, i)}
                e      == IF ends = {} THEN p1 - 1 ELSE SetMax(ends)
                curLen == e - p1 + 1
                \* _handle_long_word: the next chunk fits on no line, so
                \* its first space_left characters are broken off
                long      == e < n /\ LongChunk(t, e + 1)
                spaceLeft == CHAR_WIDTH - curLen
                e2        == IF long THEN e + spaceLeft ELSE e
                \* the last chunk of the line is dropped when it is blank
                lastIsWs == IF long THEN spaceLeft = 0 \/ IsWs(t[e + 1])
                                    ELSE IsWs(t[e])
                lineEnd  == IF long THEN (IF lastIsWs THEN e ELSE e2)
                            ELSE IF lastIsWs THEN ChunkStart(t, p1, e) - 1
                            ELSE e
                acc2 == IF lineEnd >= p1
                        THEN Append(acc, SubSeq(t, p1, lineEnd))
                        ELSE acc
            IN  WrapChunks(t, e2 + 1, acc2)

Wrap(text) == WrapChunks(Munge(text), 1, <<>>)

-----------------------------------------------------------------------------
(* receipt.py: class Receipt *)

\* a validation that also rejects priority 0
ValidPriority_Rejects0(p) == p \in PRIORITY_KEYS \ {0}

\* line 46: priority not in PRIORITY_LABELS
ValidPriority(p) == p \in PRIORITY_KEYS

\* a constructor that stores the description unclipped
Clip_None(d) == d

\* line 50: description[:CHAR_LIMIT]
Clip(d) == Slice(d, CHAR_LIMIT)

\* a truncation that marks the last kept line but keeps every line
Truncate_KeepsAll(wrapped) ==
    IF Len(wrapped) > MAX_LINES
    THEN [wrapped EXCEPT ![MAX_LINES] =
             RStrip(Slice(wrapped[MAX_LINES], CHAR_WIDTH - 3)) \o ELLIPSIS]
    ELSE wrapped

\* a truncation that marks the last kept line without shortening it first
Truncate_NoSlice(wrapped) ==
    IF Len(wrapped) > MAX_LINES
    THEN LET kept == SubSeq(wrapped, 1, MAX_LINES)
         IN  [kept EXCEPT ![MAX_LINES] = RStrip(kept[MAX_LINES]) \o ELLIPSIS]
    ELSE wrapped

\* lines 61-65: keep MAX_LINES lines and mark the last one
Truncate(wrapped) ==
    IF Len(wrapped) > MAX_LINES
    THEN LET kept == SubSeq(wrapped, 1, MAX_LINES)
             last == kept[MAX_LINES]
         IN  [kept EXCEPT ![MAX_LINES] =
                  RStrip(Slice(last, CHAR_WIDTH - 3)) \o ELLIPSIS]
    ELSE wrapped

\* lines 58-65
Body(r) == Truncate(Wrap(r.description))

\* a layout that leaves out the blank line after the body
BuildLines_NoBlank(r) ==
    <<BORDER,
      Center(r.title),
      THIN_BORDER,
      Center(PRIORITY_PREFIX \o r.priority_label),
      BORDER,
      <<>>>>
    \o Body(r)
    \o <<THIN_BORDER,
         Center(r.timestamp),
         BORDER>>

\* lines 67-86
BuildLines(r) ==
    <<BORDER,
      Center(r.title),
      THIN_BORDER,
      Center(PRIORITY_PREFIX \o r.priority_label),
      BORDER,
      <<>>>>
    \o Body(r)
    \o <<<<>>,
         THIN_BORDER,
         Center(r.timestamp),
         BORDER>>

\* lines 49-54
NewReceipt(t, d, p, now) ==
    [title          |-> Upper(t),
     description    |-> Clip(d),
     priority       |-> p,
     priority_label |-> PRIORITY_LABELS(p),
     timestamp      |-> Strftime(now)]

-----------------------------------------------------------------------------
(* Inputs *)

Letters == <<"a", "b", "c">>

\* a text of len characters that repeats, from o characters into it, the
\* pattern: w1 letters, s1 whitespace, w2 letters, s2 whitespace (a run of
\* more than one whitespace character starts with a newline)
DescPat(w1, s1, w2, s2, o, len) ==
    [i \in 1..len |->
        LET q == (i - 1 + o) % (w1 + s1 + w2 + s2)
            r == IF q < w1 + s1 THEN q ELSE q - (w1 + s1)
            w == IF q < w1 + s1 THEN w1 ELSE w2
            s == IF q < w1 + s1 THEN s1 ELSE s2
        IN  IF r < w THEN Letters[(r % 3) + 1]
            ELSE IF r = w /\ s > 1 THEN "\n" ELSE " "]

WordLens == {1, 7, 25, 46, 49, 100}
DescLens == {0, 60, CHAR_LIMIT, MaxDescLen}

\* <<w1, s1, w2, s2, o>>
Patterns ==
    {<<w, s, w, s, 0>> : w \in WordLens, s \in 0..MaxGap}
    \cup {<<w, MaxGap, w, MaxGap, w>> : w \in {7, 49}}
    \cup {<<42, MaxGap + 1, 1, 1, 0>>,
          <<1, 2 * CHAR_WIDTH + MaxGap, 1, 1, 0>>}

Descriptions ==
    {DescPat(p[1], p[2], p[3], p[4], p[5], len) : p \in Patterns, len \in DescLens}

\* a title of len characters in mixed case; sharp puts a sharp s first
TitlePat(len, sharp) ==
    [i \in 1..len |->
        IF i = 1 /\ sharp THEN "ß"
        ELSE IF i % 5 = 0 THEN " "
        ELSE IF i % 2 = 0 THEN "B" ELSE Letters[(i % 3) + 1]]

TitleLens == {0, 13, CHAR_WIDTH, MaxTitleLen}

Titles == {TitlePat(len, sharp) : len \in TitleLens, sharp \in BOOLEAN}

Priorities == -1..4

Clocks == {[year |-> 2024, month |-> 1, day |-> 5, hour |-> 9, minute |-> 30],
           [year |-> 2026, month |-> 11, day |-> 2, hour |-> 23, minute |-> 59]}

-----------------------------------------------------------------------------
(* Device commands *)

RESET      == <<27, 64>>          \* ESC @
SPACING_0  == <<27, 51, 0>>       \* ESC 3 0
SPACING_24 == <<27, 51, 24>>      \* ESC 3 24
FEED_0     == <<27, 100, 0>>      \* ESC d 0
FEED_4     == <<27, 100, 4>>      \* ESC d 4
CUT        == <<29, 86, 66, 0>>   \* GS V B 0

Raw(bytes)  == [op |-> "raw", data |-> bytes]      \* p._raw(bytes)
Text(chars) == [op |-> "text", data |-> chars]     \* p.text(chars)
Image(png)  == [op |-> "image", data |-> <<png>>]  \* p.image(png, ...)

\* a print method that sends the lines before the line spacing is set
TextJobCmds_LinesFirst(r) ==
    LET ls == BuildLines(r)
    IN  <<Raw(RESET)>>
        \o [n \in 1..Len(ls) |-> Text(ls[n] \o <<"\n">>)]
        \o <<Raw(SPACING_0), Raw(SPACING_24), Raw(FEED_0), Raw(CUT)>>

\* receipt.py lines 99-108: the device calls of Receipt.print, in order
TextJobCmds(r) ==
    LET ls == BuildLines(r)
    IN  <<Raw(RESET), Raw(SPACING_0), Raw(SPACING_24)>>
        \o [n \in 1..Len(ls) |-> Text(ls[n] \o <<"\n">>)]
        \o <<Raw(FEED_0), Raw(CUT)>>

\* PrintAllTests.py lines 57-61: the device calls of print_receipt, in order
PrintReceiptCmds(png) ==
    <<Raw(RESET), Raw(SPACING_0), Image(png), Raw(FEED_4), Raw(CUT)>>

\* print_one.py lines 53-57: the device calls of main, in order
PrintOneCmds(png) ==
    <<Raw(RESET), Raw(SPACING_0), Image(png), Raw(FEED_4), Raw(CUT)>>

\* PrintAllTests.py lines 25-52: len(TESTS)
NumTests == 4

\* html_receipt.py lines 244-253: render_png returns a path (TRUE) when
\* imgkit or, failing that, Selenium produced the image, else None (FALSE)
RenderPng(imgkitOk, seleniumOk) == IF imgkitOk THEN TRUE ELSE seleniumOk

Msg(n, text) == [i |-> n, msg |-> text]

-----------------------------------------------------------------------------
(* The layout program: Receipt(title, description, priority), then preview *)

\* no html_receipt function has run
NoArgs == [none |-> TRUE]
NoHtml == [none |-> TRUE]
None   == [some |-> FALSE, value |-> ""]

NoEnv == [imgkit_available |-> FALSE, wkhtml_exists |-> FALSE,
          imgkit_ok |-> FALSE, selenium_available |-> FALSE,
          selenium_ok |-> FALSE]

RenderIdle ==
    /\ env = NoEnv
    /\ path = ""
    /\ entry = <<>>
    /\ args = NoArgs
    /\ op = "none"
    /\ calls = <<>>
    /\ html = NoHtml
    /\ files = {}
    /\ result = None

\* CharLimitTest.build has not been called
BuildIdle ==
    /\ limit = 0
    /\ interval = 1
    /\ ruler = <<>>
    /\ count = 0
    /\ next_mark = 0
    /\ source_idx = 0

Idle ==
    /\ receipt = NoReceipt
    /\ error = "none"
    /\ lines = <<>>
    /\ conn = "none"
    /\ dev = <<>>
    /\ out = <<>>
    /\ idx = 0
    /\ nsent = 0

Init ==
    /\ program = "preview"
    /\ title \in Titles
    /\ description \in Descriptions
    /\ priority \in Priorities
    /\ clock \in Clocks
    /\ escpos = TRUE
    /\ Idle
    /\ RenderIdle
    /\ BuildIdle
    /\ pc = "start"

\* Receipt.__init__
Construct ==
    /\ pc = "start"
    /\ program \in {"preview", "text"}
    /\ IF ValidPriority(priority)
       THEN /\ receipt' = NewReceipt(title, description, priority, clock)
            /\ error' = "none"
            /\ pc' = "constructed"
       ELSE /\ receipt' = NoReceipt
            /\ error' = "ValueError"
            /\ pc' = "raised"
    /\ UNCHANGED <<requestVars, lines, deviceVars, renderVars, buildVars>>

\* Receipt.preview -> Receipt._build_lines
Preview ==
    /\ pc = "constructed"
    /\ program = "preview"
    /\ lines' = BuildLines(receipt)
    /\ pc' = "built"
    /\ UNCHANGED <<requestVars, receipt, error, deviceVars, renderVars, buildVars>>

Next == Construct \/ Preview

Spec == Init /\ [][Next]_vars

-----------------------------------------------------------------------------
(* The printing programs.  A call on the device either returns or raises.  *)

PrintTitles == {TitlePat(13, FALSE)}

PrintDescriptions ==
    {DescPat(7, 1, 7, 1, 0, 0), DescPat(7, 1, 7, 1, 0, 60),
     DescPat(25, MaxGap, 25, MaxGap, 0, 150)}

PrintInit ==
    /\ program \in {"text", "batch", "one"}
    /\ IF program = "text"
       THEN /\ title \in PrintTitles
            /\ description \in PrintDescriptions
            /\ priority \in Priorities
            /\ escpos \in BOOLEAN
       ELSE /\ title = <<>>
            /\ description = <<>>
            /\ priority = 0
            /\ escpos = TRUE
    /\ clock \in {CHOOSE c \in Clocks : c.year = 2024}
    /\ Idle
    /\ RenderIdle
    /\ BuildIdle
    /\ pc = "start"

\* receipt.py lines 94-96: the availability check and the connection
Print_Open ==
    /\ program = "text"
    /\ pc = "constructed"
    /\ IF ~escpos
       THEN /\ error' = "RuntimeError"
            /\ pc' = "raised"
            /\ UNCHANGED conn
       ELSE \E ok \in BOOLEAN :
              IF ok THEN /\ conn' = "open"
                         /\ pc' = "sending"
                         /\ UNCHANGED error
                    ELSE /\ error' = "DeviceError"
                         /\ pc' = "raised"
                         /\ UNCHANGED conn
    /\ UNCHANGED <<requestVars, receipt, lines, dev, out, idx, nsent, renderVars, buildVars>>

\* receipt.py lines 99-108: the next device call; an exception leaves print
Print_Send ==
    /\ program = "text"
    /\ pc = "sending"
    /\ LET cmds == TextJobCmds(receipt)
       IN  \E ok \in BOOLEAN :
             IF ok THEN /\ dev' = Append(dev, [job |-> 1, cmd |-> cmds[nsent + 1]])
                        /\ nsent' = nsent + 1
                        /\ pc' = IF nsent + 1 = Len(cmds) THEN "done" ELSE "sending"
                        /\ UNCHANGED error
                   ELSE /\ error' = "DeviceError"
                        /\ pc' = "raised"
                        /\ UNCHANGED <<dev, nsent>>
    /\ UNCHANGED <<requestVars, receipt, lines, conn, out, idx, renderVars, buildVars>>

\* PrintAllTests.py lines 72-76: connect, or report and return
Batch_Open ==
    /\ program = "batch"
    /\ pc = "start"
    /\ \E ok \in BOOLEAN :
         IF ok THEN /\ conn' = "open"
                    /\ idx' = 1
                    /\ pc' = "render"
                    /\ UNCHANGED out
               ELSE /\ out' = Append(out, Msg(0, "ERROR: Could not connect"))
                    /\ pc' = "done"
                    /\ UNCHANGED <<conn, idx>>
    /\ UNCHANGED <<requestVars, receipt, error, lines, dev, nsent, renderVars, buildVars>>

\* a loop that is left after the first receipt it handles
AfterReceipt_Stops(n) == "done"

\* PrintAllTests.py line 78 and line 94: the loop ends after the last test
AfterReceipt(n) == IF n < NumTests THEN "render" ELSE "done"

\* the messages printed when receipt n is left with message m
Leave(n, m) ==
    IF n < NumTests THEN <<Msg(n, m)>> ELSE <<Msg(n, m), Msg(0, "All done!")>>

\* PrintAllTests.py lines 79-86: render receipt i; skip it when no image
Batch_Render ==
    /\ program = "batch"
    /\ pc = "render"
    /\ \E imgkitOk, seleniumOk \in BOOLEAN :
         IF RenderPng(imgkitOk, seleniumOk)
         THEN /\ out' = Append(out, Msg(idx, "Printing"))
              /\ pc' = "print"
              /\ nsent' = 0
              /\ UNCHANGED idx
         ELSE /\ out' = Append(out, Msg(idx, "Printing")) \o Leave(idx, "Skipped")
              /\ pc' = AfterReceipt(idx)
              /\ idx' = idx + 1
              /\ UNCHANGED nsent
    /\ UNCHANGED <<requestVars, receipt, error, lines, conn, dev, renderVars, buildVars>>

\* PrintAllTests.py lines 88-92 and 57-61: the next device call of
\* print_receipt; an exception is caught by main, which goes on
Batch_Send ==
    /\ program = "batch"
    /\ pc = "print"
    /\ \E ok \in BOOLEAN :
         IF ok
         THEN /\ dev' = Append(dev, [job |-> idx, cmd |-> PrintReceiptCmds(idx)[nsent + 1]])
              /\ IF nsent + 1 = Len(PrintReceiptCmds(idx))
                 THEN /\ out' = out \o Leave(idx, "Done")
                      /\ pc' = AfterReceipt(idx)
                      /\ idx' = idx + 1
                      /\ UNCHANGED nsent
                 ELSE /\ nsent' = nsent + 1
                      /\ UNCHANGED <<out, pc, idx>>
         ELSE /\ out' = out \o Leave(idx, "ERROR")
              /\ pc' = AfterReceipt(idx)
              /\ idx' = idx + 1
              /\ UNCHANGED <<dev, nsent>>
    /\ UNCHANGED <<requestVars, receipt, error, lines, conn, renderVars, buildVars>>

\* print_one.py lines 43-48: render, or report and return
One_Render ==
    /\ program = "one"
    /\ pc = "start"
    /\ \E imgkitOk, seleniumOk \in BOOLEAN :
         IF RenderPng(imgkitOk, seleniumOk)
         THEN /\ out' = Append(out, Msg(1, "PNG rendered"))
              /\ pc' = "connect"
         ELSE /\ out' = Append(out, Msg(1, "ERROR: could not render PNG"))
              /\ pc' = "done"
    /\ UNCHANGED <<requestVars, receipt, error, lines, conn, dev, idx, nsent, renderVars, buildVars>>

\* print_one.py lines 51-52 and 59-60: connect inside the try block
One_Open ==
    /\ program = "one"
    /\ pc = "connect"
    /\ \E ok \in BOOLEAN :
         IF ok THEN /\ conn' = "open"
                    /\ pc' = "sending"
                    /\ UNCHANGED out
               ELSE /\ out' = Append(out, Msg(1, "ERROR: could not print"))
                    /\ pc' = "done"
                    /\ UNCHANGED conn
    /\ UNCHANGED <<requestVars, receipt, error, lines, dev, idx, nsent, renderVars, buildVars>>

\* print_one.py lines 53-60: the next device call; an exception is caught
One_Send ==
    /\ program = "one"
    /\ pc = "sending"
    /\ \E ok \in BOOLEAN :
         IF ok
         THEN /\ dev' = Append(dev, [job |-> 1, cmd |-> PrintOneCmds(0)[nsent + 1]])
              /\ nsent' = nsent + 1
              /\ IF nsent + 1 = Len(PrintOneCmds(0))
                 THEN /\ out' = Append(out, Msg(1, "Done!"))
                      /\ pc' = "done"
                 ELSE UNCHANGED <<out, pc>>
         ELSE /\ out' = Append(out, Msg(1, "ERROR: could not print"))
              /\ pc' = "done"
              /\ UNCHANGED <<dev, nsent>>
    /\ UNCHANGED <<requestVars, receipt, error, lines, conn, idx, renderVars, buildVars>>

PrintNext ==
    \/ Construct
    \/ Print_Open
    \/ Print_Send
    \/ Batch_Open
    \/ Batch_Render
    \/ Batch_Send
    \/ One_Render
    \/ One_Open
    \/ One_Send

PrintSpec == PrintInit /\ [][PrintNext]_vars

\* the programs are sequential: a program that can take a step takes it
FairPrintSpec == PrintSpec /\ WF_vars(PrintNext)

-----------------------------------------------------------------------------
(* Properties of the layout (specification Spec) *)

Built == pc = "built"

\* the positions of the empty lines of the output
Blanks == {n \in 1..Len(lines) : lines[n] = <<>>}

SetMin(S) == CHOOSE x \in S : \A y \in S : x <= y

\* the lines strictly between the two blank separator lines
BodyLines == SubSeq(lines, SetMin(Blanks) + 1, SetMax(Blanks) - 1)

EndsWithDots(l) ==
    /\ Len(l) >= 3
    /\ l[Len(l) - 2] = "." /\ l[Len(l) - 1] = "." /\ l[Len(l)] = "."

\* the word-wrapped form of the first 960 characters of the description
WrappedClipped == Wrap(Slice(description, 960))

\* line is s centered in 48 columns: s between spaces, the left padding
\* equal to the right one or one shorter; a wider s is left as it is
CenteredIn48(s, line) ==
    \E l \in 0..48 : \E r \in {l, l + 1} :
        /\ line = Rep(" ", l) \o s \o Rep(" ", r)
        /\ IF Len(s) >= 48 THEN l = 0 /\ r = 0 ELSE Len(line) = 48

\* C1: a priority outside {0,1,2,3} makes construction fail with the
\* validation error, no Receipt object exists and no line was built; a
\* priority in {0,1,2,3} makes construction succeed.
C1_PriorityValidated ==
    pc # "start" =>
        IF priority \in {0, 1, 2, 3}
        THEN receipt # NoReceipt /\ error = "none" /\ pc # "raised"
        ELSE receipt = NoReceipt /\ error = "ValueError" /\ lines = <<>>
             /\ pc = "raised"

C1_Witness == pc = "raised" /\ priority = 4 /\ receipt = NoReceipt

\* C2: the output has exactly two empty lines, at most 20 lines lie between
\* them, and the whole output has at most 30 lines.
C2_BodyAtMostMaxLines ==
    Built =>
        /\ Cardinality(Blanks) = 2
        /\ Len(BodyLines) <= 20
        /\ Len(lines) <= 30

C2_Witness == Built /\ Len(WrappedClipped) > 20 /\ Len(BodyLines) = 20

\* C3 as stated: every line is at most 48 characters long, and the border
\* lines and the title, priority and timestamp lines are exactly 48 long,
\* whatever the length of the title.
C3_Original ==
    Built =>
        /\ \A n \in 1..Len(lines) : Len(lines[n]) <= 48
        /\ \A n \in {1, 2, 3, 4, 5, Len(lines) - 2, Len(lines) - 1, Len(lines)} :
              Len(lines[n]) = 48

\* C3 amended: every line other than the title line is at most 48 characters
\* long; the border, priority and timestamp lines are exactly 48 long; the
\* title line is exactly 48 long when the upper-cased title has at most 48
\* characters, and otherwise it is the upper-cased title, unpadded and
\* longer than 48.
C3_WidthExceptLongTitle ==
    Built =>
        /\ \A n \in (1..Len(lines)) \ {2} : Len(lines[n]) <= 48
        /\ \A n \in {1, 3, 4, 5, Len(lines) - 2, Len(lines) - 1, Len(lines)} :
              Len(lines[n]) = 48
        /\ IF Len(Upper(title)) <= 48
           THEN Len(lines[2]) = 48
           ELSE lines[2] = Upper(title) /\ Len(lines[2]) > 48

C3_Witness == Built /\ Len(title) = 48 /\ Len(lines[2]) = 49

\* C4: when the wrapped form of the clipped description has more than 20
\* lines, the body has exactly 20 lines, the first 19 are the first 19
\* wrapped lines, and the 20th is the first 45 characters of the 20th
\* wrapped line without trailing whitespace, followed by "...": it ends with
\* "..." and is at most 48 long.  Otherwise the body is the wrapped form.
C4_TruncationMarker ==
    Built =>
        LET w == WrappedClipped
            body == BodyLines
        IN  IF Len(w) > 20
            THEN /\ Len(body) = 20
                 /\ \A n \in 1..19 : body[n] = w[n]
                 /\ body[20] = RStrip(Slice(w[20], 45)) \o <<".", ".", ".">>
                 /\ EndsWithDots(body[20])
                 /\ Len(body[20]) <= 48
            ELSE body = w

\* more than 20 wrapped lines, the 20th longer than 45 characters with
\* whitespace at its 45th
C4_Witness ==
    /\ Built
    /\ Len(WrappedClipped) > 20
    /\ Len(WrappedClipped[20]) > 45
    /\ IsWs(WrappedClipped[20][45])
    /\ Len(BodyLines[20]) < 48

\* C5 as stated: a description longer than 960 characters is clipped to its
\* first 960 characters, the body has at most 20 lines and the last body
\* line ends in "...".
C5_Original ==
    (Built /\ Len(description) > 960) =>
        /\ receipt.description = Slice(description, 960)
        /\ Len(BodyLines) <= 20
        /\ BodyLines # <<>>
        /\ EndsWithDots(BodyLines[Len(BodyLines)])

\* C5 amended: a description longer than 960 characters is clipped to its
\* first 960 characters before wrapping, the body has at most 20 lines, and
\* the last body line ends in "..." whenever the wrapped form of the clipped
\* description has more than 20 lines.
C5_ClippedThenMarked ==
    (Built /\ Len(description) > 960) =>
        /\ receipt.description = Slice(description, 960)
        /\ Len(receipt.description) = 960
        /\ Len(BodyLines) <= 20
        /\ BodyLines = Truncate(Wrap(Slice(description, 960)))
        /\ Len(Wrap(receipt.description)) > 20 =>
              EndsWithDots(BodyLines[Len(BodyLines)])

C5_Witness ==
    /\ Built
    /\ Len(description) = MaxDescLen
    /\ Len(BodyLines) = 20
    /\ EndsWithDots(BodyLines[20])

\* C6: the output is the full border, the upper-cased title centered, the
\* thin border, "PRIORITY: " and the label centered as one string, the full
\* border, an empty line, the k body lines in wrap order (0 <= k <= 20), an
\* empty line, the thin border, the timestamp centered, the full border:
\* 10 + k lines, and an empty description gives k = 0.
C6_FixedSequence ==
    Built =>
        LET k == Len(lines) - 10
            w == WrappedClipped
        IN  /\ k \in 0..20
            /\ lines[1] = Rep("=", 48)
            /\ CenteredIn48(Upper(title), lines[2])
            /\ lines[3] = Rep("-", 48)
            /\ CenteredIn48(PRIORITY_PREFIX \o PRIORITY_LABELS(priority), lines[4])
            /\ lines[5] = Rep("=", 48)
            /\ lines[6] = <<>>
            /\ k = Min(Len(w), 20)
            /\ \A n \in 1..k : n < 20 => lines[6 + n] = w[n]
            /\ \A n \in 1..k : lines[6 + n] # <<>>
            /\ lines[7 + k] = <<>>
            /\ lines[8 + k] = Rep("-", 48)
            /\ CenteredIn48(Strftime(clock), lines[9 + k])
            /\ lines[10 + k] = Rep("=", 48)
            /\ description = <<>> => k = 0

C6_Witness ==
    /\ Built
    /\ description = <<>>
    /\ Len(lines) = 10
    /\ lines[6] = <<>> /\ lines[7] = <<>>
    /\ priority = 0

-----------------------------------------------------------------------------
(* Properties of the print jobs (specifications PrintSpec, FairPrintSpec) *)

Jobs == 1..NumTests

\* what the device received from job j, in order
JobLog(j) ==
    LET OfJob(c) == c.job = j
        L == SelectSeq(dev, OfJob)
    IN  [n \in 1..Len(L) |-> L[n].cmd]

IsRaw(c, bytes) == c.op = "raw" /\ c.data \in bytes

IsReset(c)   == IsRaw(c, {<<27, 64>>})
IsSpacing(c) == IsRaw(c, {<<27, 51, 0>>, <<27, 51, 24>>})
IsContent(c) == c.op \in {"text", "image"}
IsFeed(c)    == IsRaw(c, {<<27, 100, 0>>, <<27, 100, 4>>})
IsCut(c)     == IsRaw(c, {<<29, 86, 66, 0>>})

\* place of a command in the fixed order of a job
Rank(c) ==
    CASE IsReset(c)   -> 1
      [] IsSpacing(c) -> 2
      [] IsContent(c) -> 3
      [] IsFeed(c)    -> 4
      [] IsCut(c)     -> 5
      [] OTHER        -> 0

\* number of content items a complete job sends
ContentCount == IF program = "text" THEN Len(BuildLines(receipt)) ELSE 1

\* job j ended with every device call returned
JobSucceeded(j) ==
    CASE program = "text"  -> j = 1 /\ pc = "done"
      [] program = "batch" -> Msg(j, "Done") \in {out[n] : n \in 1..Len(out)}
      [] program = "one"   -> j = 1 /\ Msg(1, "Done!") \in {out[n] : n \in 1..Len(out)}
      [] OTHER             -> FALSE

\* job j is over: its function returned or raised
JobEnded(j) ==
    CASE program = "text"  -> j = 1 /\ pc \in {"done", "raised"}
      [] program = "batch" -> j < idx \/ (pc = "done" /\ j <= idx)
      [] program = "one"   -> j = 1 /\ pc = "done"
      [] OTHER             -> FALSE

\* C7: in every job the device receives the reset first, then the line
\* spacing commands, then the content (the text lines in _build_lines order,
\* or the image), then the feed, then the cut: no content before the reset
\* and the line spacing, no feed or cut before the last content item, nothing
\* after the cut, and a job whose calls all returned ends with the cut.
C7_CommandOrder ==
    /\ \A a, b \in 1..Len(dev) : a < b => dev[a].job <= dev[b].job
    /\ \A j \in Jobs :
         LET L == JobLog(j)
             contents == {n \in 1..Len(L) : IsContent(L[n])}
         IN  /\ \A n \in 1..Len(L) : Rank(L[n]) \in 1..5
             /\ \A a, b \in 1..Len(L) :
                  a < b => \/ Rank(L[a]) < Rank(L[b])
                           \/ Rank(L[a]) = Rank(L[b]) /\ Rank(L[a]) \in {2, 3}
             /\ Len(L) > 0 => IsReset(L[1])
             /\ \A n \in contents : \E m \in 1..(n - 1) : IsSpacing(L[m])
             /\ \A n \in 1..Len(L) :
                  (IsFeed(L[n]) \/ IsCut(L[n])) =>
                      /\ Cardinality(contents) = ContentCount
                      /\ \A m \in contents : m < n
             /\ \A n \in 1..Len(L) : IsCut(L[n]) => (n > 1 /\ IsFeed(L[n - 1]))
             /\ \A n \in contents :
                  L[n].op = "text" =>
                      L[n].data = BuildLines(receipt)[n - SetMin(contents) + 1] \o <<"\n">>
             /\ JobSucceeded(j) => (Len(L) > 0 /\ IsCut(L[Len(L)]))

\* a text job with several body lines that went through
C7_Witness ==
    /\ program = "text" /\ pc = "done"
    /\ Len(dev) = 15 + Len(Wrap(receipt.description))
    /\ Len(Wrap(receipt.description)) > 1

\* C8: a job that has sent content to the device ends with the feed and the
\* partial cut, on every path, one where a send fails included.
C8_PostambleAlwaysSent ==
    \A j \in Jobs :
        LET L == JobLog(j)
        IN  (JobEnded(j) /\ \E n \in 1..Len(L) : IsContent(L[n])) =>
                /\ Len(L) >= 2
                /\ IsFeed(L[Len(L) - 1])
                /\ IsCut(L[Len(L)])

BatchMsgs == {out[n] : n \in 1..Len(out)}

\* every receipt of the batch was taken up, in input order, and was skipped,
\* printed or reported as failed
AllAttempted ==
    /\ \A n \in 1..NumTests :
         /\ Msg(n, "Printing") \in BatchMsgs
         /\ Cardinality({m \in {"Skipped", "Done", "ERROR"} : Msg(n, m) \in BatchMsgs}) = 1
         /\ Msg(n, "Skipped") \in BatchMsgs => JobLog(n) = <<>>
         /\ Msg(n, "Done") \in BatchMsgs => Len(JobLog(n)) = 5
         /\ Msg(n, "ERROR") \in BatchMsgs => Len(JobLog(n)) < 5
    /\ Msg(0, "All done!") \in BatchMsgs

\* receipts are handled one at a time, in input order
BatchInOrder ==
    /\ \A a, b \in 1..Len(out) :
         (a < b /\ out[a].i > 0 /\ out[b].i > 0) => out[a].i <= out[b].i
    /\ \A a, b \in 1..Len(dev) : a < b => dev[a].job <= dev[b].job
    /\ \A a \in 1..Len(dev) : dev[a].job <= idx

BatchConnected == program = "batch" /\ conn = "open"

\* C9: a batch run that has connected handles the receipts one at a time in
\* input order, attempts every receipt whatever happened to the earlier ones
\* (no image rendered, a failed device call), and reaches its end.
C9_BatchAttemptsAll ==
    /\ [](BatchConnected => BatchInOrder)
    /\ []((BatchConnected /\ pc = "done") => AllAttempted)
    /\ (BatchConnected ~> (pc = "done"))

\* the first receipt could not be rendered, the second failed on the device,
\* and the last two were printed
C9_Witness ==
    /\ BatchConnected /\ pc = "done"
    /\ Msg(1, "Skipped") \in BatchMsgs
    /\ Msg(2, "ERROR") \in BatchMsgs /\ Len(JobLog(2)) = 2
    /\ Msg(3, "Done") \in BatchMsgs
    /\ Msg(NumTests, "Done") \in BatchMsgs

\* C10: when a run ends, normally or with an exception, a connection it
\* opened has been released.
C10_ConnectionReleased == pc \in {"done", "raised"} => conn # "open"

\* C11: a device failure (the printer cannot be reached, or a send fails) is
\* caught where the device is used and reported; it never leaves a print
\* operation as an exception.
C11_DeviceFailureCaught == error # "DeviceError"

-----------------------------------------------------------------------------
(* html_receipt.py and the custom entry of print_preview.py *)

\* everything of the layout and printing programs but the console
printVars == <<requestVars, receipt, error, lines, conn, dev, idx, nsent>>

\* html_receipt.py line 52
DESCRIPTION_CHAR_LIMIT == 550

UNKNOWN == <<"U","N","K","N","O","W","N">>

\* html_receipt.py line 75: PRIORITY_LABELS.get(priority, "UNKNOWN")
HtmlPriorityLabel(p) == IF p \in PRIORITY_KEYS THEN PRIORITY_LABELS(p) ELSE UNKNOWN

\* html_receipt.py lines 65-67
TruncateText(text) == Slice(text, DESCRIPTION_CHAR_LIMIT)

\* html_receipt.py lines 70-165: the values put into the template
BuildHtml(a, now) ==
    [title          |-> a.title,
     priority_label |-> HtmlPriorityLabel(a.priority),
     description    |-> TruncateText(a.description),
     timestamp      |-> Strftime(now)]

Some(v) == [some |-> TRUE, value |-> v]

\* Python truth value of a str | None
Truthy(r) == r.some /\ r.value # ""

\* html_receipt.py lines 176-197: the call raised when imgkit_ok is false
RenderPngImgkit(e, png) ==
    IF ~e.imgkit_available THEN None
    ELSE IF ~e.wkhtml_exists THEN None
    ELSE IF e.imgkit_ok THEN Some(png) ELSE None

\* html_receipt.py lines 200-235: the browser raised when selenium_ok is false
RenderPngSelenium(e, png) ==
    IF ~e.selenium_available THEN None
    ELSE IF e.selenium_ok THEN Some(png) ELSE None

\* what the two renderers print
ImgkitMsgs(e) ==
    IF e.imgkit_available /\ e.wkhtml_exists /\ ~e.imgkit_ok
    THEN <<Msg(0, "imgkit failed")>> ELSE <<>>

SeleniumMsgs(e) ==
    IF ~e.selenium_available THEN <<Msg(0, "ERROR: selenium not installed")>>
    ELSE IF ~e.selenium_ok THEN <<Msg(0, "Selenium failed")>> ELSE <<>>

\* a render_png that goes on to Selenium whatever imgkit returned
TrySelenium_Always(r) == TRUE

\* html_receipt.py lines 247-249: if result: return result
TrySelenium(r) == ~Truthy(r)

\* str.strip()
Strip(s) ==
    LET keep == {n \in 1..Len(s) : ~IsWs(s[n])}
    IN  IF keep = {} THEN <<>>
        ELSE SubSeq(s, CHOOSE x \in keep : \A y \in keep : x <= y, SetMax(keep))

DigitValue(c) == CHOOSE d \in 0..9 : Digits[d + 1] = c

IsDigit(c) == \E d \in 0..9 : Digits[d + 1] = c

RECURSIVE DigitsValue(_)
DigitsValue(s) ==
    IF s = <<>> THEN 0
    ELSE 10 * DigitsValue(SubSeq(s, 1, Len(s) - 1)) + DigitValue(s[Len(s)])

\* int(text.strip()): an optional sign and decimal digits, else ValueError
ParseInt(text) ==
    LET t      == Strip(text)
        signed == t # <<>> /\ t[1] \in {"-", "+"}
        body   == IF signed THEN Tail(t) ELSE t
    IN  IF body # <<>> /\ \A n \in 1..Len(body) : IsDigit(body[n])
        THEN [ok |-> TRUE,
              value |-> IF signed /\ t[1] = "-" THEN 0 - DigitsValue(body)
                        ELSE DigitsValue(body)]
        ELSE [ok |-> FALSE, value |-> 0]

\* print_preview.py lines 113-118
CustomPriority(text) ==
    IF ParseInt(text).ok /\ ParseInt(text).value \in PRIORITY_KEYS
    THEN ParseInt(text).value
    ELSE 0

UNTITLED == <<"U","n","t","i","t","l","e","d">>
NO_DESCRIPTION == <<"N","o"," ","d","e","s","c","r","i","p","t","i","o","n",".">>

\* print_preview.py lines 110-111: input(...).strip() or default
OrDefault(text, default) == IF Strip(text) = <<>> THEN default ELSE Strip(text)

HtmlTitles == {<<>>, <<" ", "a", "B", " ">>}

HtmlDescriptions ==
    {DescPat(7, 1, 7, 1, 0, len) : len \in {0, 60, DESCRIPTION_CHAR_LIMIT + MaxGap}}

Entries ==
    {<<>>, <<"0">>, <<"3">>, <<"4">>, <<"-", "1">>, <<"x">>,
     <<" ", "2", " ">>, <<"1", "2">>}

Paths == {"receipt.png", "test_1.png"}

Envs == [imgkit_available : BOOLEAN, wkhtml_exists : BOOLEAN,
         imgkit_ok : BOOLEAN, selenium_available : BOOLEAN,
         selenium_ok : BOOLEAN]

RenderInit ==
    /\ program \in {"build_html", "save_html", "render_png", "custom"}
    /\ title \in HtmlTitles
    /\ description \in HtmlDescriptions
    /\ clock \in {CHOOSE c \in Clocks : c.year = 2024}
    /\ escpos = TRUE
    /\ IF program = "custom"
       THEN /\ priority = 0
            /\ entry \in Entries
            /\ args = NoArgs
            /\ op = "none"
            /\ path = ""
            /\ pc = "start"
       ELSE /\ priority \in Priorities
            /\ entry = <<>>
            /\ args = [title |-> title, description |-> description,
                       priority |-> priority]
            /\ op = program
            /\ path \in IF program = "build_html" THEN {""} ELSE Paths
            /\ pc = "build"
    /\ env \in IF program \in {"render_png", "custom"} THEN Envs ELSE {NoEnv}
    /\ calls = <<>>
    /\ html = NoHtml
    /\ files = {}
    /\ result = None
    /\ Idle
    /\ BuildIdle

\* print_preview.py lines 108-120: the custom entry, up to the preview call
Custom_Pick ==
    /\ program = "custom"
    /\ pc = "start"
    /\ args' = [title       |-> OrDefault(title, UNTITLED),
                description |-> OrDefault(description, NO_DESCRIPTION),
                priority    |-> CustomPriority(entry)]
    /\ op' = "save_html"
    /\ path' = "receipt.html"
    /\ pc' = "build"
    /\ UNCHANGED <<printVars, buildVars, out, env, entry, calls, html, files, result>>

\* html_receipt.py lines 170 and 244: save_html and render_png start with
\* build_html; lines 75-165: build_html
Html_Build ==
    /\ pc = "build"
    /\ html' = BuildHtml(args, clock)
    /\ pc' = CASE op = "build_html" -> "done"
               [] op = "save_html"  -> "write"
               [] op = "render_png" -> "imgkit"
    /\ UNCHANGED <<printVars, buildVars, out, env, path, entry, args, op, calls,
                   files, result>>

\* html_receipt.py lines 171-173; print_preview.py lines 64-68
Html_Write ==
    /\ pc = "write"
    /\ files' = files \cup {path}
    /\ result' = Some(path)
    /\ IF program = "custom"
       THEN /\ out' = Append(out, Msg(0, "HTML"))
            /\ op' = "render_png"
            /\ path' = "receipt.png"
            /\ pc' = "build"
       ELSE /\ pc' = "done"
            /\ UNCHANGED <<out, op, path>>
    /\ UNCHANGED <<printVars, buildVars, env, entry, args, calls, html>>

\* render_png returns to preview, which reports, or to its caller
AfterRender == IF program = "custom" THEN "report" ELSE "done"

\* html_receipt.py lines 247-252: call imgkit; return its result or go on
Render_Imgkit ==
    /\ pc = "imgkit"
    /\ calls' = Append(calls, "imgkit")
    /\ LET r == RenderPngImgkit(env, path)
       IN  /\ files' = IF r.some THEN files \cup {path} ELSE files
           /\ IF TrySelenium(r)
              THEN /\ out' = out \o ImgkitMsgs(env)
                               \o <<Msg(0, "imgkit unavailable, trying Selenium...")>>
                   /\ pc' = "selenium"
                   /\ UNCHANGED result
              ELSE /\ out' = out \o ImgkitMsgs(env)
                   /\ result' = r
                   /\ pc' = AfterRender
    /\ UNCHANGED <<printVars, buildVars, env, path, entry, args, op, html>>

\* html_receipt.py line 253: return what Selenium returns
Render_Selenium ==
    /\ pc = "selenium"
    /\ calls' = Append(calls, "selenium")
    /\ LET r == RenderPngSelenium(env, path)
       IN  /\ files' = IF r.some THEN files \cup {path, "_render.html"} ELSE files
           /\ result' = r
    /\ out' = out \o SeleniumMsgs(env)
    /\ pc' = AfterRender
    /\ UNCHANGED <<printVars, buildVars, env, path, entry, args, op, html>>

\* print_preview.py lines 69-73
Custom_Report ==
    /\ pc = "report"
    /\ out' = Append(out, Msg(0, IF Truthy(result) THEN "PNG" ELSE "PNG: skipped"))
    /\ pc' = "done"
    /\ UNCHANGED <<printVars, buildVars, renderVars>>

RenderNext ==
    \/ Custom_Pick
    \/ Html_Build
    \/ Html_Write
    \/ Render_Imgkit
    \/ Render_Selenium
    \/ Custom_Report

RenderSpec == RenderInit /\ [][RenderNext]_vars

-----------------------------------------------------------------------------
(* Properties of html_receipt.py and the preview tool (RenderSpec) *)

ImgkitWorks   == env.imgkit_available /\ env.wkhtml_exists /\ env.imgkit_ok
SeleniumWorks == env.selenium_available /\ env.selenium_ok

\* render_png has returned
RenderReturned == op = "render_png" /\ pc \in {"report", "done"}

\* C12: render_png calls imgkit first and Selenium second; when imgkit
\* succeeds its result is returned and Selenium is not called; Selenium is
\* called exactly when imgkit is unavailable or fails; the result is None
\* exactly when both fail; no exception leaves render_png.
C12_RenderFallback ==
    /\ calls \in {<<>>, <<"imgkit">>, <<"imgkit", "selenium">>}
    /\ error = "none"
    /\ RenderReturned =>
         /\ calls # <<>>
         /\ ImgkitWorks => (result = [some |-> TRUE, value |-> path]
                            /\ calls = <<"imgkit">>)
         /\ (calls = <<"imgkit", "selenium">>) <=> ~ImgkitWorks
         /\ (result = None) <=> (~ImgkitWorks /\ ~SeleniumWorks)
         /\ (~ImgkitWorks /\ SeleniumWorks) =>
                result = [some |-> TRUE, value |-> path]

\* imgkit raised and Selenium produced the image
C12_Witness ==
    /\ RenderReturned
    /\ env.imgkit_available /\ env.wkhtml_exists /\ ~env.imgkit_ok
    /\ SeleniumWorks
    /\ calls = <<"imgkit", "selenium">>
    /\ result.some /\ result.value = path

\* the request carries no priority of {0,1,2,3}
InvalidRequest ==
    IF program = "custom"
    THEN ~(ParseInt(entry).ok /\ ParseInt(entry).value \in {0, 1, 2, 3})
    ELSE priority \notin {0, 1, 2, 3}

\* C13: a priority outside {0,1,2,3} is surfaced as a validation failure
\* before any output is produced and is never replaced by another priority
\* or label, in build_html, save_html, render_png and the custom entry of
\* the preview tool.
C13_InvalidPrioritySurfaced ==
    InvalidRequest =>
        /\ html = NoHtml
        /\ files = {}
        /\ args # NoArgs => args.priority \notin {0, 1, 2, 3}
        /\ pc = "done" => error = "ValueError"

-----------------------------------------------------------------------------
(* CharLimitTest.py: build(limit, interval) *)

\* len(_LOREM)
LOREM_LEN == 1452

\* the first characters of _LOREM; the limits tried read no further
LOREM_HEAD == <<
      "L","o","r","e","m"," ","i","p","s","u","m"," ","d","o","l","o",
      "r"," ","s","i","t"," ","a","m","e","t"," ","c","o","n","s","e",
      "c","t","e","t","u","r"," ","a","d","i","p","i","s","c","i","n",
      "g"," ","e","l","i","t"," ","s","e","d"," ","d","o"," ","e","i",
      "u","s","m","o","d"," ","t","e","m","p","o","r"," ","i","n","c">>

\* line 57: len((_LOREM + " ") * (limit // len(_LOREM) + 2))
SourceLen(lim) == (LOREM_LEN + 1) * ((lim \div LOREM_LEN) + 2)

\* line 65: source[n], n counted from 0
SourceChar(n) ==
    LET q == n % (LOREM_LEN + 1)
    IN  IF q = LOREM_LEN THEN " "
        ELSE IF q < Len(LOREM_HEAD) THEN LOREM_HEAD[q + 1] ELSE "x"

\* str(n) for n >= 0
RECURSIVE Str(_)
Str(n) == IF n < 10 THEN <<Digits[n + 1]>>
          ELSE Str(n \div 10) \o <<Digits[(n % 10) + 1]>>

\* line 72: f"[{next_mark}]"
Marker(n) == <<"[">> \o Str(n) \o <<"]">>

BuildInit ==
    /\ program = "build"
    /\ limit \in 0..MaxLimit
    /\ interval \in 1..MaxInterval
    /\ ruler = <<>>
    /\ count = 0
    /\ next_mark = interval
    /\ source_idx = 0
    /\ title = <<>>
    /\ description = <<>>
    /\ priority = 0
    /\ clock \in {CHOOSE c \in Clocks : c.year = 2024}
    /\ escpos = TRUE
    /\ Idle
    /\ RenderIdle
    /\ pc = "loop"

\* line 64: the loop condition
BuildLoops == count < limit /\ source_idx < SourceLen(limit)

\* lines 65-75: one iteration of the loop
Build_Step ==
    /\ program = "build"
    /\ pc = "loop"
    /\ BuildLoops
    /\ source_idx' = source_idx + 1
    /\ IF count + 1 = next_mark
       THEN /\ ruler' = Append(ruler, SourceChar(source_idx)) \o Marker(next_mark)
            /\ count' = count + 1 + Len(Marker(next_mark))
            /\ next_mark' = next_mark + interval
       ELSE /\ ruler' = Append(ruler, SourceChar(source_idx))
            /\ count' = count + 1
            /\ UNCHANGED next_mark
    /\ UNCHANGED <<printVars, renderVars, out, limit, interval, pc>>

\* line 77: return result[:limit]
Build_Return ==
    /\ program = "build"
    /\ pc = "loop"
    /\ ~BuildLoops
    /\ ruler' = Slice(ruler, limit)
    /\ pc' = "done"
    /\ UNCHANGED <<printVars, renderVars, out, limit, interval, count,
                   next_mark, source_idx>>

BuildNext == Build_Step \/ Build_Return

BuildSpec == BuildInit /\ [][BuildNext]_vars

\* the marker of n starts at index n (counted from 0) of the returned string
MarkerAt(n) ==
    /\ n + Len(Marker(n)) <= Len(ruler)
    /\ SubSeq(ruler, n + 1, n + Len(Marker(n))) = Marker(n)

\* C14: build returns a string in which the marker "[n]" of every multiple
\* n of interval that fits inside the limit appears, starting at index n.
C14_MarkersAtMultiples ==
    pc = "done" =>
        \A n \in 1..limit :
            (n % interval = 0 /\ n + Len(Marker(n)) <= limit) => MarkerAt(n)

=============================================================================
